---------------------------- MODULE Spec2Model ----------------------------
(***************************************************************************)
(* A model of tonutils/tonconnect/models/wallet.py: the TON Connect proof  *)
(* verifier (WalletInfo.verify_proof), the session assembler               *)
(* (WalletInfo.from_payload), the catalog URL normalizer                   *)
(* (WalletApp.universal_url_to_direct_url) and the dictionary forms of     *)
(* WalletApp and WalletInfo.                                               *)
(*                                                                         *)
(* Python values are tagged records, so that None, a str and a bytes value *)
(* are distinct and comparable: None, Str(<<code points>>), Bytes(<<0..255 *)
(* >>).  A call's outcome is Return(value) or Raise(exception).  A str     *)
(* that is only stored and compared, never encoded (an item's name, a      *)
(* catalog field), is held as Str("text").                                 *)
(***************************************************************************)
EXTENDS Integers, Sequences, FiniteSets, TLC

VARIABLES
    \* WalletInfo.verify_proof
    wallet,         \* the WalletInfo the call is made on (self)
    src_payload,    \* the override payload argument: None or a str
    message,        \* the local `message` once built, Unbuilt before
    verified,       \* the outcome of verify_proof, Pending before the call
    \* WalletInfo.from_payload
    payload,        \* the caller's payload mapping (from_payload mutates its items)
    given,          \* the payload as the caller built it
    assembled,      \* the outcome of the latest from_payload call
    first,          \* the outcome of the first from_payload call
    calls,          \* the number of from_payload calls made on `payload`
    \* WalletApp.universal_url_to_direct_url
    universal_url,  \* the URL given
    direct_url,     \* universal_url_to_direct_url(universal_url)
    again,          \* universal_url_to_direct_url(direct_url)
    \* from_dict / to_dict
    obj,            \* a WalletApp or a WalletInfo
    data,           \* its dictionary form
    first_data,     \* the first dictionary form taken
    stage           \* position in to_dict ; from_dict ; to_dict

verifyVars == <<wallet, src_payload, message, verified>>
payloadVars == <<payload, given, assembled, first, calls>>
urlVars == <<universal_url, direct_url, again>>
dictVars == <<obj, data, first_data, stage>>
vars == <<verifyVars, payloadVars, urlVars, dictVars>>

---------------------------------------------------------------------------
(* Python values *)

None == [t |-> "none"]
Str(s) == [t |-> "str", v |-> s]
Bytes(b) == [t |-> "bytes", v |-> b]
Return(x) == [kind |-> "return", value |-> x]
Raise(e) == [kind |-> "raise", exc |-> e]
Pending == [kind |-> "pending"]
Unbuilt == [t |-> "unbuilt"]
Idle == [t |-> "idle"]

\* "...".encode(): the code points of the ASCII literals of the source
TonProofTag == <<116,111,110,45,112,114,111,111,102,45,105,116,101,109,45,118,50,47>>
TonConnectTag == <<116,111,110,45,99,111,110,110,101,99,116>>
\* bytes.fromhex("ffff")
EnvelopeMarker == <<255, 255>>

\* str.encode(): UTF-8, one byte below U+0080 and two bytes below U+0800
Utf8(cp) == IF cp < 128 THEN <<cp>> ELSE <<192 + (cp \div 64), 128 + (cp % 64)>>

RECURSIVE encode(_)
encode(s) == IF s = <<>> THEN <<>> ELSE Utf8(Head(s)) \o encode(Tail(s))

\* The `length` low bytes of n, least significant first.  With the floored
\* \div and % of Integers this is also the two's complement form of a
\* negative n.
RECURSIVE LittleEndian(_, _)
LittleEndian(n, length) ==
    IF length = 0 THEN <<>>
    ELSE <<n % 256>> \o LittleEndian(n \div 256, length - 1)

RECURSIVE HighPart(_, _)
HighPart(n, length) == IF length = 0 THEN n ELSE HighPart(n \div 256, length - 1)

\* int.to_bytes(length, "little"), signed=False: OverflowError for a negative
\* int and for one that does not fit in `length` bytes.
to_bytes(n, length) ==
    IF n < 0 \/ HighPart(n, length) # 0 THEN Raise("OverflowError")
    ELSE Return(LittleEndian(n, length))

\* bytes.fromhex on a str of hex digits: ValueError for an odd number of
\* digits or a character that is no hex digit.
HexDigit(c) ==
    IF c \in 48..57 THEN c - 48
    ELSE IF c \in 97..102 THEN c - 87
    ELSE IF c \in 65..70 THEN c - 55
    ELSE -1

RECURSIVE fromhex(_)
fromhex(s) ==
    IF s = <<>> THEN Return(<<>>)
    ELSE IF Len(s) = 1 \/ HexDigit(s[1]) < 0 \/ HexDigit(s[2]) < 0 THEN Raise("ValueError")
    ELSE LET rest == fromhex(SubSeq(s, 3, Len(s)))
         IN  IF rest.kind = "raise" THEN rest
             ELSE Return(<<16 * HexDigit(s[1]) + HexDigit(s[2])>> \o rest.value)

\* hashlib.sha256(m).digest(): a collision-free digest, kept symbolic
sha256(m) == [sha256 |-> m]

\* nacl: the sizes of an Ed25519 public key and signature
PublicKeyBytes == 32
SignatureBytes == 64

\* A signature is symbolic: its length, the public key of the signer and the
\* digest signed.  VerifyKey(key).verify(digest, signature) raises unless the
\* key has 32 bytes, the signature has 64, and the signature is the signer's
\* over that digest.
Sign(key, digest) == [t |-> "bytes", len |-> SignatureBytes, signer |-> key, over |-> digest]

VerifyKeyVerify(public_key_bytes, digest, signature) ==
    /\ Len(public_key_bytes) = PublicKeyBytes
    /\ signature.t = "bytes"
    /\ signature.len = SignatureBytes
    /\ signature.signer = public_key_bytes
    /\ signature.over = digest

---------------------------------------------------------------------------
(* WalletInfo.verify_proof *)

\* x or y
Or(x, y) == IF x = None THEN y ELSE IF x.v = <<>> THEN y ELSE x

\* the signature message: marker, tag and the digest of the proof message
SignatureMessage(msg) == [head |-> EnvelopeMarker \o TonConnectTag, digest |-> sha256(msg)]

\* The call, up to its return or the exception it lets out: the outcome and
\* the local `message` as far as it was built.
verify_proof(self, src) ==
    IF self.ton_proof = None \/ self.account = None
    THEN [outcome |-> Return(FALSE), message |-> Unbuilt]
    ELSE
    LET wc == to_bytes(self.account.address.wc, 4)
        whash == self.account.address.hash_part
        dlen == to_bytes(self.ton_proof.domain_len, 4)
        ts == to_bytes(self.ton_proof.timestamp, 8)
    IN  IF wc.kind = "raise" THEN [outcome |-> wc, message |-> Unbuilt]
        ELSE IF dlen.kind = "raise" THEN [outcome |-> dlen, message |-> Unbuilt]
        ELSE IF ts.kind = "raise" THEN [outcome |-> ts, message |-> Unbuilt]
        ELSE
        LET msg == TonProofTag \o wc.value \o whash \o dlen.value
                      \o encode(self.ton_proof.domain_val.v) \o ts.value
                      \o encode(Or(src, self.ton_proof.payload).v)
            signature_message == SignatureMessage(msg)
            public_key == self.account.public_key
            public_key_bytes ==
                IF public_key.t = "str" THEN fromhex(public_key.v)
                ELSE IF public_key.t = "bytes" THEN Return(public_key.v)
                ELSE Raise("neither str nor bytes")
        IN  IF public_key_bytes.kind = "raise"
            THEN [outcome |-> Return(FALSE), message |-> Bytes(msg)]
            ELSE [outcome |-> Return(VerifyKeyVerify(public_key_bytes.value,
                                                     sha256(signature_message),
                                                     self.ton_proof.signature)),
                  message |-> Bytes(msg)]


---------------------------------------------------------------------------
(* The values verify_proof is called on *)

\* Address.hash_part has 32 bytes
HashPartBytes == 32
HashPart1 == [i \in 1..HashPartBytes |-> 0]
HashPart2 == [i \in 1..HashPartBytes |-> IF i = 1 THEN 1 ELSE 0]

\* basechain 0 and masterchain -1
Workchains == {-1, 0}

\* The wallet's key pair A, and another public key B
KeyA == [i \in 1..PublicKeyBytes |-> 10]
KeyB == [i \in 1..PublicKeyBytes |-> 11]
HexA == [i \in 1..(2 * PublicKeyBytes) |-> IF i % 2 = 1 THEN 48 ELSE 97]   \* "0a0a..."
HexB == [i \in 1..(2 * PublicKeyBytes) |-> IF i % 2 = 1 THEN 48 ELSE 98]   \* "0b0b..."
NotHex == [i \in 1..(2 * PublicKeyBytes) |-> 122]                          \* "zzzz..."
ShortHex == <<48, 97>>                                                     \* "0a"

PublicKeys ==
    {Str(HexA), Str(HexB), Str(NotHex), Str(ShortHex), Bytes(KeyA), Bytes(<<10>>), None}

\* "a", "ab", and U+00E9, whose UTF-8 form has two bytes
Domains == {<<97>>, <<97, 98>>, <<233>>}
DomainLens == {1, 2}
\* 354 is 0x0162: its little-endian form starts with the byte of "b"
Timestamps == {1, 354}
\* "" and "\x00"
Payloads == {<<>>, <<0>>}

Addresses == [wc : Workchains, hash_part : {HashPart1, HashPart2}]
Accounts == [address : Addresses, public_key : PublicKeys]

\* What a wallet signs (TON Connect ton_proof): the message of the layout
\* with the workchain as a signed 32-bit integer and the domain's true byte
\* length, wrapped in the signature message and hashed.
WalletSigns(wc, hash_part, domain, timestamp, pl) ==
    sha256(SignatureMessage(
        TonProofTag \o LittleEndian(wc, 4) \o hash_part
            \o LittleEndian(Len(encode(domain)), 4) \o encode(domain)
            \o LittleEndian(timestamp, 8) \o encode(pl)))

\* The signatures wallet A made for the address with HashPart1, and one of
\* them cut short
Signatures ==
    {Sign(KeyA, WalletSigns(wc, HashPart1, d, ts, pl)) :
        wc \in Workchains, d \in Domains, ts \in Timestamps, pl \in Payloads}
    \cup {[Sign(KeyA, WalletSigns(0, HashPart1, <<97>>, 1, <<>>)) EXCEPT !.len = SignatureBytes - 1]}

Proofs ==
    [timestamp : Timestamps, domain_len : DomainLens, domain_val : {Str(d) : d \in Domains},
     payload : {Str(pl) : pl \in Payloads}, signature : Signatures]

WalletInfos ==
    [device : {None}, provider : {"http"},
     account : {None} \cup Accounts, ton_proof : {None} \cup Proofs]

SrcPayloads == {None} \cup {Str(pl) : pl \in Payloads}

---------------------------------------------------------------------------
(* Specification of verify_proof *)

IdleVerify == wallet = Idle /\ src_payload = Idle /\ message = Idle /\ verified = Idle
IdlePayload == payload = Idle /\ given = Idle /\ assembled = Idle /\ first = Idle /\ calls = 0
IdleUrl == universal_url = Idle /\ direct_url = Idle /\ again = Idle
IdleDict == obj = Idle /\ data = Idle /\ first_data = Idle /\ stage = 0

InitVerify ==
    /\ wallet \in WalletInfos
    /\ src_payload \in SrcPayloads
    /\ message = Unbuilt
    /\ verified = Pending
    /\ IdlePayload /\ IdleUrl /\ IdleDict

\* wallet.verify_proof(src_payload)
VerifyProof ==
    /\ verified = Pending
    /\ LET r == verify_proof(wallet, src_payload)
       IN  /\ verified' = r.outcome
           /\ message' = r.message
    /\ UNCHANGED <<wallet, src_payload, payloadVars, urlVars, dictVars>>

NextVerify == VerifyProof

SpecVerify == InitVerify /\ [][NextVerify]_vars

---------------------------------------------------------------------------
(* Claims about verify_proof *)

Called == verified # Pending
HasBoth == wallet # Idle /\ wallet.account # None /\ wallet.ton_proof # None

\* The message of the stated layout: tag, workchain (4 bytes, little-endian,
\* signed 32-bit), address hash, domain_len (4), domain_val, timestamp (8),
\* payload.
LayoutMessage(self, pl) ==
    TonProofTag \o LittleEndian(self.account.address.wc, 4) \o self.account.address.hash_part
        \o LittleEndian(self.ton_proof.domain_len, 4) \o encode(self.ton_proof.domain_val.v)
        \o LittleEndian(self.ton_proof.timestamp, 8) \o encode(pl)

\* The account's public key as bytes, when it has a byte form
KeyBytes(public_key) ==
    IF public_key.t = "str" THEN fromhex(public_key.v)
    ELSE IF public_key.t = "bytes" THEN Return(public_key.v)
    ELSE Raise("TypeError")

\* The proof's signature is a valid signature, under the account's public
\* key, of digest(0xFFFF ++ "ton-connect" ++ digest(M))
SignatureValid(self, pl) ==
    /\ KeyBytes(self.account.public_key).kind = "return"
    /\ VerifyKeyVerify(KeyBytes(self.account.public_key).value,
                       sha256(SignatureMessage(LayoutMessage(self, pl))),
                       self.ton_proof.signature)

\* The WalletInfo values that differ from self in the signature alone, the
\* address hash alone, the domain string alone or the timestamp alone
Tampered(self) ==
    {[self EXCEPT !.ton_proof.signature = sg] : sg \in Signatures \ {self.ton_proof.signature}}
    \cup {[self EXCEPT !.account.address.hash_part = h] :
            h \in {HashPart1, HashPart2} \ {self.account.address.hash_part}}
    \cup {[self EXCEPT !.ton_proof.domain_val = Str(d)] :
            d \in Domains \ {self.ton_proof.domain_val.v}}
    \cup {[self EXCEPT !.ton_proof.timestamp = ts] :
            ts \in Timestamps \ {self.ton_proof.timestamp}}

\* C1: with an account and a ton_proof, verify_proof returns true exactly
\* when the signature is valid, under the account's public key, for the
\* message of the stated layout; and a proof that was accepted is rejected
\* (false is returned) once its signature, address hash, domain string or
\* timestamp is changed.
C1_TrueIffSignatureValid ==
    (Called /\ HasBoth) =>
        /\ (verified = Return(TRUE))
              <=> SignatureValid(wallet, Or(src_payload, wallet.ton_proof.payload).v)
        /\ verified = Return(TRUE) =>
              \A w \in Tampered(wallet) : verify_proof(w, src_payload).outcome = Return(FALSE)

\* C2: verify_proof never lets an exception out: every call ends by
\* returning a boolean.
C2_NeverRaises == Called => (verified.kind = "return" /\ verified.value \in BOOLEAN)

NotHexKey(self) ==
    self.account.public_key.t = "str" /\ fromhex(self.account.public_key.v).kind = "raise"
WrongLengthKey(self) ==
    /\ KeyBytes(self.account.public_key).kind = "return"
    /\ Len(KeyBytes(self.account.public_key).value) # PublicKeyBytes
WrongLengthSignature(self) == self.ton_proof.signature.len # SignatureBytes

\* C3: verify_proof returns false, and raises nothing, when the account is
\* absent, the ton_proof is absent, the public key is a str that is not
\* hex, the public key has the wrong byte length, or the signature has the
\* wrong length.
C3_MalformedIsFalse ==
    (Called /\ (\/ wallet.account = None
                \/ wallet.ton_proof = None
                \/ NotHexKey(wallet)
                \/ WrongLengthKey(wallet)
                \/ WrongLengthSignature(wallet)))
        => verified = Return(FALSE)

DomainLenMismatch(self) ==
    self.ton_proof.domain_len # Len(encode(self.ton_proof.domain_val.v))

\* C4: a proof whose domain_len differs from the byte length of domain_val
\* is never accepted.
C4_DomainLenMismatchRejected ==
    (Called /\ HasBoth /\ DomainLenMismatch(wallet)) => verified # Return(TRUE)

\* C5: the last field of the message is the override payload whenever the
\* caller gives one (the empty string included) and the proof's own payload
\* only when none is given.
C5_OverridePayloadLast ==
    (Called /\ message # Unbuilt) =>
        message = Bytes(LayoutMessage(wallet,
                     IF src_payload # None THEN src_payload.v ELSE wallet.ton_proof.payload.v))

---------------------------------------------------------------------------
(* Dictionaries and the models' own dictionary forms *)

\* A dict is a function from its keys; a dict or a list held as a value is
\* tagged like the other values.
Dict(d) == [t |-> "dict", v |-> d]
List(l) == [t |-> "list", v |-> l]

\* d.get(key)
Get(d, key) == IF key \in DOMAIN d THEN d[key] ELSE None

\* d without key, as d.pop(key) leaves it
Without(d, key) == [k \in DOMAIN d \ {key} |-> d[k]]

\* Address in text form: the workchain, ":" and the hash
AddressText(a) == Str(<<a.wc, 58>> \o a.hash_part)
ParseAddress(s) == [wc |-> s.v[1], hash_part |-> SubSeq(s.v, 3, Len(s.v))]

Account_from_dict(d) ==
    [address |-> ParseAddress(d["address"]), public_key |-> Get(d, "public_key")]
Account_to_dict(a) ==
    [address |-> AddressText(a.address), public_key |-> a.public_key]

TonProof_from_dict(d) ==
    [timestamp |-> Get(d, "timestamp"), domain_len |-> Get(d, "domain_len"),
     domain_val |-> Get(d, "domain_val"), payload |-> Get(d, "payload"),
     signature |-> Get(d, "signature")]
TonProof_to_dict(tp) ==
    [timestamp |-> tp.timestamp, domain_len |-> tp.domain_len, domain_val |-> tp.domain_val,
     payload |-> tp.payload, signature |-> tp.signature]

DeviceInfo_from_dict(d) == [platform |-> Get(d, "platform"), app_name |-> Get(d, "appName")]
DeviceInfo_to_dict(dev) == [platform |-> dev.platform, appName |-> dev.app_name]

---------------------------------------------------------------------------
(* WalletInfo.from_payload *)

TonConnectError(msg) == [kind |-> "raise", exc |-> "TonConnectError", msg |-> msg]

\* cls()
NewWalletInfo == [device |-> None, provider |-> "http", account |-> None, ton_proof |-> None]

\* `not items` for the value of payload.get("items")
NoItems(items) == IF items = None THEN TRUE ELSE items.v = <<>>

\* the check of line 204 left out
NoAccount_never(w) == FALSE
\* `not wallet.account`
NoAccount(w) == w.account = None

\* `if device_info`
HasDevice(device_info) == IF device_info = None THEN FALSE ELSE DOMAIN device_info.v # {}

\* The for loop from item i on: each item's "name" is popped from the item
\* itself; an item without the key ends the loop with KeyError.  Yields the
\* items as the loop leaves them, the wallet, and the exception if any.
RECURSIVE ScanItems(_, _, _)
ScanItems(items, i, w) ==
    IF i > Len(items) THEN [items |-> items, wallet |-> w, error |-> None]
    ELSE IF "name" \notin DOMAIN items[i]
    THEN [items |-> items, wallet |-> w, error |-> Raise("KeyError")]
    ELSE
    LET item_name == items[i]["name"]
        item == Without(items[i], "name")
    IN  ScanItems([items EXCEPT ![i] = item], i + 1,
                  IF item_name = Str("ton_addr")
                  THEN [w EXCEPT !.account = Account_from_dict(item)]
                  ELSE IF item_name = Str("ton_proof")
                  THEN [w EXCEPT !.ton_proof = TonProof_from_dict(item)]
                  ELSE w)

\* The call: its outcome and the payload as the call leaves it
from_payload(pl) ==
    LET items == Get(pl, "items")
    IN  IF NoItems(items)
        THEN [outcome |-> TonConnectError("items not contains in payload"), payload |-> pl]
        ELSE
        LET scan == ScanItems(items.v, 1, NewWalletInfo)
            after == [pl EXCEPT !["items"] = List(scan.items)]
            device_info == Get(pl, "device")
        IN  IF scan.error # None THEN [outcome |-> scan.error, payload |-> after]
            ELSE IF NoAccount(scan.wallet)
            THEN [outcome |-> TonConnectError("ton_addr not contains in items"), payload |-> after]
            ELSE IF HasDevice(device_info)
            THEN [outcome |-> Return([scan.wallet EXCEPT
                                         !.device = DeviceInfo_from_dict(device_info.v)]),
                  payload |-> after]
            ELSE [outcome |-> Return(scan.wallet), payload |-> after]

\* The payloads from_payload is called on
MaxItems == 2
MaxCalls == 2

AddrItem(h) ==
    [name |-> Str("ton_addr"), address |-> AddressText([wc |-> 0, hash_part |-> h]),
     public_key |-> Str(HexA)]
ProofItem ==
    [name |-> Str("ton_proof"), timestamp |-> 1, domain_len |-> 1, domain_val |-> Str(<<97>>),
     payload |-> Str(<<>>), signature |-> Sign(KeyA, WalletSigns(0, HashPart1, <<97>>, 1, <<>>))]
OtherItem == [name |-> Str("other"), value |-> Str(<<>>)]
Items == {AddrItem(HashPart1), AddrItem(HashPart2), ProofItem, OtherItem}

ItemLists == UNION {[1..n -> Items] : n \in 0..MaxItems}
DeviceDict == [platform |-> Str(<<105>>), appName |-> Str(<<116>>)]

Payloads0 ==
    LET withItems == {[items |-> List(l)] : l \in ItemLists}
    IN  {<<>>} \cup withItems
        \cup {[device |-> Dict(DeviceDict)]}
        \cup {[items |-> p.items, device |-> Dict(DeviceDict)] : p \in withItems}

InitPayload ==
    /\ payload \in Payloads0
    /\ given = payload
    /\ assembled = Pending
    /\ first = Pending
    /\ calls = 0
    /\ IdleVerify /\ IdleUrl /\ IdleDict

\* WalletInfo.from_payload(payload), on the caller's one payload object
FromPayload ==
    /\ calls < MaxCalls
    /\ LET r == from_payload(payload)
       IN  /\ payload' = r.payload
           /\ assembled' = r.outcome
           /\ first' = IF calls = 0 THEN r.outcome ELSE first
    /\ calls' = calls + 1
    /\ UNCHANGED <<given, verifyVars, urlVars, dictVars>>

NextPayload == FromPayload

SpecPayload == InitPayload /\ [][NextPayload]_vars

---------------------------------------------------------------------------
(* Claims about from_payload *)

ErrItems == TonConnectError("items not contains in payload")
ErrAddress == TonConnectError("ton_addr not contains in items")

ItemsMissing(pl) == NoItems(Get(pl, "items"))
\* every item still carries its name, and none is named "ton_addr"
ScannedWithoutAddress(pl) ==
    /\ ~ItemsMissing(pl)
    /\ \A i \in 1..Len(pl["items"].v) :
          /\ "name" \in DOMAIN pl["items"].v[i]
          /\ pl["items"].v[i]["name"] # Str("ton_addr")

\* C6 (as stated): the failure for absent or empty items is a
\* MissingItemsError, the failure for a scanned list without "ton_addr" is a
\* MissingAddressError, and the two differ in type.
C6_DistinctErrorTypes ==
    calls = 1 =>
        /\ ItemsMissing(given) => assembled.exc = "MissingItemsError"
        /\ ScannedWithoutAddress(given) =>
              /\ assembled.exc = "MissingAddressError"
              /\ assembled.exc # from_payload(<<>>).outcome.exc

\* C6 (amended): every call on a payload whose items are absent or empty
\* raises TonConnectError("items not contains in payload"), and every call
\* on a payload whose items all carry a name, none of them "ton_addr",
\* raises TonConnectError("ton_addr not contains in items"): one error
\* type, told apart by the message alone.
C6_OneErrorTypeTwoMessages ==
    [][calls' = calls + 1 =>
          /\ ItemsMissing(payload) => assembled' = ErrItems
          /\ ScannedWithoutAddress(payload) =>
                /\ assembled' = ErrAddress
                /\ assembled'.exc = from_payload(<<>>).outcome.exc
                /\ assembled'.msg # from_payload(<<>>).outcome.msg]_vars

\* a first call that scanned a list of two items, a proof among them, and
\* found no address
C6_Witness ==
    /\ calls = 1
    /\ ScannedWithoutAddress(given)
    /\ Len(given["items"].v) = 2
    /\ assembled = ErrAddress

\* C10: from_payload leaves the payload as it was given, and after any
\* number of calls on it a further call has the outcome of the first.
C10_PureAndRepeatable ==
    calls >= 1 => (payload = given /\ assembled = first)

---------------------------------------------------------------------------
(* WalletApp.universal_url_to_direct_url *)

\* A URL string is kept in pieces: the path as a sequence of tokens ("/",
\* or a run of characters holding no "/"), whether a "?" follows the path,
\* and the text after it as the sequence of its "&"-separated name=value
\* pairs, each still percent-encoded.  Scheme, host and fragment are copied
\* by the function and left out.
Url(path, question, query) == [path |-> path, question |-> question, query |-> query]

\* urlparse(universal_url): .path and .query
urlparse(u) == [path |-> u.path, query |-> IF u.question THEN u.query ELSE <<>>]

\* unquote: "%61" is "a"
unquote(x) == IF x = "%61ttach" THEN "attach" ELSE x
\* quote_plus: letters and digits stay as they are
quote_plus(x) == x

\* `not value` for a pair's value: a pair with a blank value is dropped
\* (keep_blank_values is False)
BlankValue(v) == v = ""

RECURSIVE ParsePairs(_, _)
ParsePairs(pairs, acc) ==
    IF pairs = <<>> THEN acc
    ELSE
    LET k == unquote(Head(pairs).k)
        v == unquote(Head(pairs).v)
        at == {i \in 1..Len(acc) : acc[i].k = k}
    IN  ParsePairs(Tail(pairs),
            IF BlankValue(Head(pairs).v) THEN acc
            ELSE IF at = {} THEN Append(acc, [k |-> k, vs |-> <<v>>])
            ELSE LET i == CHOOSE i \in at : TRUE
                 IN  [acc EXCEPT ![i].vs = Append(@, v)])

\* parse_qs(query): the names in order of first appearance, each with the
\* list of its values
parse_qs(query) == ParsePairs(query, <<>>)

\* query_dict.pop(key, None) is not None
HasKey(query_dict, key) == \E i \in 1..Len(query_dict) : query_dict[i].k = key

RECURSIVE Pop(_, _)
Pop(query_dict, key) ==
    IF query_dict = <<>> THEN <<>>
    ELSE IF Head(query_dict).k = key THEN Pop(Tail(query_dict), key)
    ELSE <<Head(query_dict)>> \o Pop(Tail(query_dict), key)

\* urlencode(query_dict, doseq=True)
RECURSIVE urlencode(_)
urlencode(query_dict) ==
    IF query_dict = <<>> THEN <<>>
    ELSE [i \in 1..Len(Head(query_dict).vs) |->
             [k |-> quote_plus(Head(query_dict).k), v |-> quote_plus(Head(query_dict).vs[i])]]
         \o urlencode(Tail(query_dict))

\* path.rstrip("/")
RECURSIVE rstrip(_)
rstrip(path) ==
    IF path # <<>> /\ path[Len(path)] = "/" THEN rstrip(SubSeq(path, 1, Len(path) - 1))
    ELSE path

\* path.endswith("/start")
EndsWithStart(path) ==
    Len(path) >= 2 /\ path[Len(path) - 1] = "/" /\ path[Len(path)] = "start"

\* "/start" appended whatever the path ends in
LacksStart_always(new_path) == TRUE
\* `if not new_path.endswith("/start")`
LacksStart(new_path) == ~EndsWithStart(new_path)

\* parsed.geturl(): the "?" is written only before a query that is not empty
geturl(path, query) == Url(path, query # <<>>, query)

universal_url_to_direct_url(u) ==
    LET parsed == urlparse(u)
        query_dict == parse_qs(parsed.query)
        new_path ==
            IF HasKey(query_dict, "attach")
            THEN IF LacksStart(rstrip(parsed.path))
                 THEN rstrip(parsed.path) \o <<"/", "start">>
                 ELSE rstrip(parsed.path)
            ELSE parsed.path
    IN  geturl(new_path, urlencode(Pop(query_dict, "attach")))

\* The URLs the function is called on
MaxPath == 4
MaxQuery == 2

PathTokens == {"/", "start", "b"}
Paths == {p \in UNION {[1..n -> PathTokens] : n \in 0..MaxPath} : p # <<>> => p[1] = "/"}
Pairs == [k : {"attach", "%61ttach", "v", "b"}, v : {"", "1"}]
Queries == UNION {[1..n -> Pairs] : n \in 0..MaxQuery}
Urls == {Url(p, FALSE, <<>>) : p \in Paths} \cup {Url(p, TRUE, q) : p \in Paths, q \in Queries}

InitUrl ==
    /\ universal_url \in Urls
    /\ direct_url = Pending
    /\ again = Pending
    /\ IdleVerify /\ IdlePayload /\ IdleDict

\* direct_url = universal_url_to_direct_url(universal_url)
ToDirectUrl ==
    /\ direct_url = Pending
    /\ direct_url' = universal_url_to_direct_url(universal_url)
    /\ UNCHANGED <<universal_url, again, verifyVars, payloadVars, dictVars>>

\* the function applied to its own result
ToDirectUrlAgain ==
    /\ direct_url # Pending
    /\ again = Pending
    /\ again' = universal_url_to_direct_url(direct_url)
    /\ UNCHANGED <<universal_url, direct_url, verifyVars, payloadVars, dictVars>>

NextUrl == ToDirectUrl \/ ToDirectUrlAgain

SpecUrl == InitUrl /\ [][NextUrl]_vars

---------------------------------------------------------------------------
(* Claims about universal_url_to_direct_url *)

\* the query has a parameter named attach, whatever its value
HasAttach(u) == u.question /\ \E i \in 1..Len(u.query) : unquote(u.query[i].k) = "attach"

\* the number of "/start" segments the path ends in, trailing slashes trimmed
RECURSIVE CountStarts(_)
CountStarts(path) ==
    IF EndsWithStart(path) THEN 1 + CountStarts(SubSeq(path, 1, Len(path) - 2)) ELSE 0
TrailingStarts(path) == CountStarts(rstrip(path))

\* C7: for a URL whose query has a parameter named attach (an empty value
\* included), the result has no attach parameter and its path, trailing
\* slashes trimmed, ends in /start, none having been added to a path that
\* ended in /start already.
C7_AttachGivesStart ==
    (direct_url # Idle /\ direct_url # Pending /\ HasAttach(universal_url)) =>
        /\ ~HasAttach(direct_url)
        /\ TrailingStarts(direct_url.path) >= 1
        /\ TrailingStarts(universal_url.path) >= 1 =>
              TrailingStarts(direct_url.path) = TrailingStarts(universal_url.path)

\* C8: applying the function to its own result returns that result, and a
\* path that ends in /start already is given no second /start.
C8_Idempotent ==
    /\ (again # Idle /\ again # Pending) => again = direct_url
    /\ (direct_url # Idle /\ direct_url # Pending
            /\ TrailingStarts(universal_url.path) >= 1) =>
          TrailingStarts(direct_url.path) = TrailingStarts(universal_url.path)

\* a URL with an attach parameter and another one, whose path ends in
\* /start/, normalised twice
C8_Witness ==
    /\ again # Idle /\ again # Pending
    /\ HasKey(parse_qs(urlparse(universal_url).query), "attach")
    /\ EndsWithStart(rstrip(universal_url.path))
    /\ universal_url.path # rstrip(universal_url.path)
    /\ direct_url.query # <<>>
    /\ direct_url # universal_url

---------------------------------------------------------------------------
(* from_dict and to_dict of WalletApp and WalletInfo *)

\* d.get(key, default)
GetOr(d, key, default) == IF key \in DOMAIN d THEN d[key] ELSE default

\* WalletApp.from_dict with the attribute's own name as the key
WalletApp_from_dict_snake(d) ==
    [app_name |-> Get(d, "app_name"), name |-> Get(d, "name"), image |-> Get(d, "image"),
     bridge_url |-> Get(d, "bridge_url"), tondns |-> Get(d, "tondns"),
     about_url |-> Get(d, "about_url"), universal_url |-> Get(d, "universal_url"),
     deep_link |-> Get(d, "deep_link"), platforms |-> Get(d, "platforms")]

WalletApp_from_dict(d) ==
    [app_name |-> Get(d, "app_name"), name |-> Get(d, "name"), image |-> Get(d, "image"),
     bridge_url |-> Get(d, "bridge_url"), tondns |-> Get(d, "tondns"),
     about_url |-> Get(d, "about_url"), universal_url |-> Get(d, "universal_url"),
     deep_link |-> Get(d, "deepLink"), platforms |-> Get(d, "platforms")]

WalletApp_to_dict(self) ==
    [app_name |-> self.app_name, name |-> self.name, image |-> self.image,
     bridge_url |-> self.bridge_url, tondns |-> self.tondns, about_url |-> self.about_url,
     universal_url |-> self.universal_url, deepLink |-> self.deep_link,
     platforms |-> self.platforms]

WalletInfo_from_dict(d) ==
    LET device_data == Get(d, "device")
        account_data == Get(d, "account")
        ton_proof_data == Get(d, "ton_proof")
    IN  [device |-> IF device_data # None THEN DeviceInfo_from_dict(device_data.v) ELSE None,
         provider |-> GetOr(d, "provider", "http"),
         account |-> IF account_data # None THEN Account_from_dict(account_data.v) ELSE None,
         ton_proof |-> IF ton_proof_data # None THEN TonProof_from_dict(ton_proof_data.v)
                       ELSE None]

\* `if self.device`, `if self.account`, `if self.ton_proof`: an instance of
\* the dataclass is true, None is not
Truthy(x) == x # None

WalletInfo_to_dict(self) ==
    [device |-> IF Truthy(self.device) THEN Dict(DeviceInfo_to_dict(self.device)) ELSE None,
     provider |-> self.provider,
     account |-> IF Truthy(self.account) THEN Dict(Account_to_dict(self.account)) ELSE None,
     ton_proof |-> IF Truthy(self.ton_proof) THEN Dict(TonProof_to_dict(self.ton_proof))
                   ELSE None]

\* The values converted
Optional(x) == {None, Str(x)}
WalletApps ==
    [app_name : {Str("tonkeeper")}, name : {Str("Tonkeeper")}, image : Optional("i"),
     bridge_url : Optional("b"), tondns : Optional("t"), about_url : Optional("a"),
     universal_url : Optional("u"), deep_link : Optional("d"),
     platforms : {None, List(<<"ios", "android">>)}]

Devices == {[platform |-> Str("iphone"), app_name |-> Str("Tonkeeper")]}
SessionAccounts ==
    [address : [wc : Workchains, hash_part : {HashPart1}], public_key : {Str(HexA), Bytes(KeyA)}]
SessionProofs ==
    {[timestamp |-> 1, domain_len |-> 1, domain_val |-> Str(<<97>>), payload |-> Str(<<>>),
      signature |-> Sign(KeyA, WalletSigns(0, HashPart1, <<97>>, 1, <<>>))]}
Sessions ==
    [device : {None} \cup Devices, provider : {"http", "injected"},
     account : {None} \cup SessionAccounts, ton_proof : {None} \cup SessionProofs]

IsWalletApp(o) == "app_name" \in DOMAIN o

InitDict ==
    /\ obj \in WalletApps \cup Sessions
    /\ data = Pending
    /\ first_data = Pending
    /\ stage = 0
    /\ IdleVerify /\ IdlePayload /\ IdleUrl

\* data = obj.to_dict(), for a WalletApp
WalletAppToDict ==
    /\ stage \in {0, 2}
    /\ IsWalletApp(obj)
    /\ data' = WalletApp_to_dict(obj)
    /\ first_data' = IF stage = 0 THEN WalletApp_to_dict(obj) ELSE first_data
    /\ stage' = stage + 1
    /\ UNCHANGED <<obj, verifyVars, payloadVars, urlVars>>

\* obj = WalletApp.from_dict(data)
WalletAppFromDict ==
    /\ stage = 1
    /\ IsWalletApp(obj)
    /\ obj' = WalletApp_from_dict(data)
    /\ stage' = 2
    /\ UNCHANGED <<data, first_data, verifyVars, payloadVars, urlVars>>

\* data = obj.to_dict(), for a WalletInfo
WalletInfoToDict ==
    /\ stage \in {0, 2}
    /\ ~IsWalletApp(obj)
    /\ data' = WalletInfo_to_dict(obj)
    /\ first_data' = IF stage = 0 THEN WalletInfo_to_dict(obj) ELSE first_data
    /\ stage' = stage + 1
    /\ UNCHANGED <<obj, verifyVars, payloadVars, urlVars>>

\* obj = WalletInfo.from_dict(data)
WalletInfoFromDict ==
    /\ stage = 1
    /\ ~IsWalletApp(obj)
    /\ obj' = WalletInfo_from_dict(data)
    /\ stage' = 2
    /\ UNCHANGED <<data, first_data, verifyVars, payloadVars, urlVars>>

NextDict == WalletAppToDict \/ WalletAppFromDict \/ WalletInfoToDict \/ WalletInfoFromDict

SpecDict == InitDict /\ [][NextDict]_vars

---------------------------------------------------------------------------
(* Claims about the dictionary forms *)

\* C9: to_dict(from_dict(to_dict(x))) is to_dict(x) for every WalletApp and
\* WalletInfo; a WalletApp's deep_link is under the key "deepLink", and no
\* other, in the dictionary and is read back from it; absent device,
\* account and ton_proof of a WalletInfo stay None and its provider is kept.
C9_RoundTrip ==
    /\ stage = 3 => data = first_data
    /\ (stage >= 1 /\ IsWalletApp(obj)) =>
          /\ "deepLink" \in DOMAIN data
          /\ "deep_link" \notin DOMAIN data
          /\ data["deepLink"] = obj.deep_link
          /\ data["deepLink"] = first_data["deepLink"]
    /\ (stage >= 2 /\ ~IsWalletApp(obj)) =>
          /\ \A f \in {"device", "account", "ton_proof"} :
                first_data[f] = None => obj[f] = None
          /\ obj.provider = first_data["provider"]

\* a WalletApp with a deep link, and a universal URL but no image, after
\* to_dict ; from_dict ; to_dict
C9_Witness ==
    /\ stage = 3
    /\ IsWalletApp(obj)
    /\ obj.deep_link = Str("d")
    /\ obj.image = None
    /\ obj.universal_url # None
    /\ data = first_data

=============================================================================
